---- MODULE Spec2Model ----
(***************************************************************************)
(* Model of src/App.py, the Aadhaar enrollment dashboard: the cached       *)
(* loader/normalizer load_and_clean_data, the sidebar widgets, the global  *)
(* filter and the five views of the menu.                                  *)
(*                                                                         *)
(* A text value is a sequence of chunks (words and whitespace chunks), so  *)
(* that str.strip() does real work.  A timestamp is an integer number of   *)
(* half days: 2*day is midnight of the day, 2*day+1 is noon of it.         *)
(***************************************************************************)
EXTENDS Integers, Sequences, FiniteSets, TLC

VARIABLES
    raw_fact,             \* cleaned_data.parquet: [readable, rows]
    raw_summary,          \* district_priority.csv: [readable, rows]
    phase,                \* "start" | "idle" (before a script run) | "done"
    df_clean,             \* first value returned by load_and_clean_data
    district_summary,     \* second value returned by load_and_clean_data
    menu,                 \* st.radio "Switch View:"
    date_range_defined,   \* whether the name selected_date_range is bound
    selected_date_range,  \* value of st.date_input
    selected_states,
    selected_districts,
    df_final,
    dist_final,
    raised,               \* exception that ended the run, or "none"
    rendered,             \* what the main area shows below the title
    p_sorted,             \* dist_final.sort_values('priority_score', ascending=False)
    p_top,                \* data frame handed to px.bar by Priority Districts
    fig_mat               \* data frame handed to px.scatter by Performance Matrix

vars == <<raw_fact, raw_summary, phase, df_clean, district_summary, menu,
          date_range_defined, selected_date_range, selected_states,
          selected_districts, df_final, dist_final, raised, rendered,
          p_sorted, p_top, fig_mat>>

(***************************************************************************)
(* Bounds of the model.                                                    *)
(***************************************************************************)
MaxRows == 2          \* rows of the fact file
MaxDay == 1           \* calendar days are 0..MaxDay
MaxSummaryRows == 2   \* rows of an enumerated summary file
MaxBlock == 7         \* rows of one block of a long summary file

Range(s) == {s[i] : i \in 1..Len(s)}

(***************************************************************************)
(* load_and_clean_data: static configuration.                              *)
(***************************************************************************)
ALL_VALID ==
    { <<"Andhra", " ", "Pradesh">>, <<"Arunachal", " ", "Pradesh">>, <<"Assam">>,
      <<"Bihar">>, <<"Chhattisgarh">>,
      <<"Goa">>, <<"Gujarat">>, <<"Haryana">>, <<"Himachal", " ", "Pradesh">>,
      <<"Jharkhand">>,
      <<"Karnataka">>, <<"Kerala">>, <<"Madhya", " ", "Pradesh">>, <<"Maharashtra">>,
      <<"Manipur">>,
      <<"Meghalaya">>, <<"Mizoram">>, <<"Nagaland">>, <<"Odisha">>, <<"Punjab">>,
      <<"Rajasthan">>, <<"Sikkim">>, <<"Tamil", " ", "Nadu">>, <<"Telangana">>,
      <<"Tripura">>,
      <<"Uttar", " ", "Pradesh">>, <<"Uttarakhand">>, <<"West", " ", "Bengal">>,
      <<"Andaman", " ", "and", " ", "Nicobar", " ", "Islands">>, <<"Chandigarh">>,
      <<"Dadra", " ", "and", " ", "Nagar", " ", "Haveli", " ", "and", " ", "Daman",
        " ", "and", " ", "Diu">>,
      <<"Delhi">>, <<"Jammu", " ", "and", " ", "Kashmir">>, <<"Ladakh">>,
      <<"Lakshadweep">>, <<"Puducherry">> }

geojson_map(s) ==
    IF s = <<"Andaman", " ", "and", " ", "Nicobar", " ", "Islands">>
    THEN <<"Andaman", " ", "&", " ", "Nicobar">>
    ELSE IF s = <<"Jammu", " ", "and", " ", "Kashmir">>
    THEN <<"Jammu", " ", "&", " ", "Kashmir">>
    ELSE s

Whitespace == {" ", "\t", "\n"}

RECURSIVE lstrip(_)
lstrip(s) ==
    IF s # <<>> /\ Head(s) \in Whitespace THEN lstrip(Tail(s)) ELSE s

RECURSIVE rstrip(_)
rstrip(s) ==
    IF s # <<>> /\ s[Len(s)] \in Whitespace
    THEN rstrip(SubSeq(s, 1, Len(s) - 1))
    ELSE s

\* str.strip(): leading and trailing whitespace removed, inner kept
strip(s) == rstrip(lstrip(s))

\* pd.to_datetime of a date-time value: half days since day 0
to_datetime(d) == 2 * d.day + (IF d.noon THEN 1 ELSE 0)

\* Timestamp.date(): the calendar day, time of day dropped
date(ts) == ts \div 2

\* pd.to_datetime of a calendar day: its midnight
day_to_datetime(d) == 2 * d

\* df['state'] = df['state'].str.strip()
StripStates(rows) ==
    [i \in 1..Len(rows) |-> [rows[i] EXCEPT !.state = strip(rows[i].state)]]

\* whitelist filter left out
isin_anything(rows) == rows

\* df = df[df['state'].isin(ALL_VALID)]
isin_ALL_VALID(rows) == SelectSeq(rows, LAMBDA r : r.state \in ALL_VALID)

\* df['state_for_map'] = ...; df["date"] = pd.to_datetime(df["date"])
DeriveColumns(rows) ==
    [i \in 1..Len(rows) |->
        [state |-> rows[i].state,
         district |-> rows[i].district,
         date |-> to_datetime(rows[i].date),
         state_for_map |-> geojson_map(rows[i].state)]]

\* the fact half of load_and_clean_data; an unreadable file gives the
\* fallback frame with the expected columns and no rows
CleanFact(file) ==
    LET df == IF file.readable THEN file.rows ELSE <<>>
    IN  DeriveColumns(isin_ALL_VALID(StripStates(df)))

\* the summary half: read, or an empty frame; only the column names change
CleanSummary(file) == IF file.readable THEN file.rows ELSE <<>>


(***************************************************************************)
(* Sidebar: navigation and filters (the values the widgets can return).    *)
(***************************************************************************)
Menus == {"Executive Summary", "National Heatmap", "Priority Districts",
          "Enrollment Trends", "Performance Matrix"}

Days == 0..MaxDay

Dates(df) == {df[i].date : i \in 1..Len(df)}

\* df_clean['date'].min().date() and df_clean['date'].max().date()
min_date(df) == date(CHOOSE t \in Dates(df) : \A u \in Dates(df) : t <= u)
max_date(df) == date(CHOOSE t \in Dates(df) : \A u \in Dates(df) : u <= t)

\* the value st.date_input starts with
DefaultDateRange(df) == <<min_date(df), max_date(df)>>

\* st.date_input("Select Date Range", [min_date, max_date]): the default,
\* a range the user completed, or a range of which only the start is picked
DateInputValues(df) ==
    {DefaultDateRange(df)}
        \cup {r \in Days \X Days : r[1] <= r[2]}
        \cup {<<a>> : a \in Days}

\* sorted(df_clean['state'].unique())
all_states(df) == {df[i].state : i \in 1..Len(df)}

\* checkbox "Select All States" or st.multiselect("Pick States", all_states)
StateSelections(df) == SUBSET all_states(df)

\* sorted(df_clean[df_clean['state'].isin(selected_states)][dist_col].unique())
relevant_districts(df, states) ==
    {df[i].district : i \in {j \in 1..Len(df) : df[j].state \in states}}

\* checkbox "Select All Districts" or st.multiselect("Pick Districts", ...)
DistrictSelections(df, states) == SUBSET relevant_districts(df, states)

(***************************************************************************)
(* Apply global filters.                                                   *)
(***************************************************************************)
\* an empty selection filters nothing
mask_empty_is_all(r, range, states, districts) ==
    /\ (states = {} \/ r.state \in states)
    /\ (districts = {} \/ r.district \in districts)
    /\ r.date >= day_to_datetime(range[1])
    /\ r.date <= day_to_datetime(range[2])

\* the end of the range is exclusive
mask_end_exclusive(r, range, states, districts) ==
    /\ r.state \in states
    /\ r.district \in districts
    /\ r.date >= day_to_datetime(range[1])
    /\ r.date < day_to_datetime(range[2])

mask(r, range, states, districts) ==
    /\ r.state \in states
    /\ r.district \in districts
    /\ r.date >= day_to_datetime(range[1])
    /\ r.date <= day_to_datetime(range[2])

\* df_final of the filter step
FilterFact(df, range, states, districts) ==
    IF Len(range) = 2
    THEN SelectSeq(df, LAMBDA r : mask(r, range, states, districts))
    ELSE df

\* dist_final of the filter step
FilterSummary(summary, range, states, districts) ==
    IF Len(range) = 2
    THEN IF summary # <<>>
         THEN SelectSeq(summary,
                        LAMBDA r : r.state \in states /\ r.district \in districts)
         ELSE <<>>
    ELSE summary

(***************************************************************************)
(* Views.                                                                  *)
(***************************************************************************)
Reverse(s) == [i \in 1..Len(s) |-> s[Len(s) + 1 - i]]

\* the same sort with the score going upwards
RECURSIVE InsertAsc(_, _)
InsertAsc(sorted, r) ==
    IF sorted = <<>> THEN <<r>>
    ELSE IF sorted[Len(sorted)].priority_score <= r.priority_score
         THEN Append(sorted, r)
         ELSE Append(InsertAsc(SubSeq(sorted, 1, Len(sorted) - 1), r),
                     sorted[Len(sorted)])

RECURSIVE InsertDesc(_, _)
InsertDesc(sorted, r) ==
    IF sorted = <<>> THEN <<r>>
    ELSE IF sorted[Len(sorted)].priority_score >= r.priority_score
         THEN Append(sorted, r)
         ELSE Append(InsertDesc(SubSeq(sorted, 1, Len(sorted) - 1), r),
                     sorted[Len(sorted)])

RECURSIVE SortAsc(_)
SortAsc(t) ==
    IF t = <<>> THEN <<>>
    ELSE InsertAsc(SortAsc(SubSeq(t, 1, Len(t) - 1)), t[Len(t)])

RECURSIVE SortDesc(_)
SortDesc(t) ==
    IF t = <<>> THEN <<>>
    ELSE InsertDesc(SortDesc(SubSeq(t, 1, Len(t) - 1)), t[Len(t)])

\* the orders in which the sort can leave rows of equal score
TieOrders == {"kept", "reversed"}

\* sorts the score upwards
sort_values_ascending(t, ties) ==
    IF ties = "kept" THEN SortAsc(t) ELSE SortAsc(Reverse(t))

\* sort_values('priority_score', ascending=False); the default sort kind
\* (quicksort) does not fix the order of rows of equal score
sort_values(t, ties) ==
    IF ties = "kept" THEN SortDesc(t) ELSE SortDesc(Reverse(t))

\* the cut-off of .head(20)
PriorityTopN == 20

\* .head(n): the first n rows, all of them when there are fewer
head(t, n) == SubSeq(t, 1, IF Len(t) < n THEN Len(t) ELSE n)

\* p_top['label'] = p_top['district'] + " (" + p_top['state'] + ")"
WithLabel(t) ==
    [i \in 1..Len(t) |->
        [state |-> t[i].state,
         district |-> t[i].district,
         priority_score |-> t[i].priority_score,
         pincodes |-> t[i].pincodes,
         children |-> t[i].children,
         label |-> <<t[i].district, " ", "(">> \o t[i].state \o <<")">>]]

\* the label column lands in the cached summary table
SummaryAliasedByView(summary, labelled) == labelled

\* the cached summary table after the Priority Districts view: sort_values
\* returns a new frame, so the label column is added to that frame only
SummaryAfterView(summary, labelled) == summary

(***************************************************************************)
(* The script.                                                             *)
(***************************************************************************)
\* load_and_clean_data(), run once and cached
LoadAndCleanData ==
    /\ phase = "start"
    /\ phase' = "idle"
    /\ df_clean' = CleanFact(raw_fact)
    /\ district_summary' = CleanSummary(raw_summary)
    /\ UNCHANGED <<raw_fact, raw_summary, menu, date_range_defined,
                   selected_date_range, selected_states, selected_districts,
                   df_final, dist_final, raised, rendered, p_sorted, p_top,
                   fig_mat>>

\* the sidebar and the filter step of one run in which the date widget exists
SidebarAndFilter(m, range, states, districts) ==
    /\ phase' = "done"
    /\ menu' = m
    /\ date_range_defined' = TRUE
    /\ selected_date_range' = range
    /\ selected_states' = states
    /\ selected_districts' = districts
    /\ df_final' = FilterFact(df_clean, range, states, districts)
    /\ dist_final' = FilterSummary(district_summary, range, states, districts)
    /\ raised' = "none"
    /\ UNCHANGED <<raw_fact, raw_summary, df_clean>>

\* a run over an empty df_clean: the date widget is skipped, and the filter
\* step reads the unbound name selected_date_range
RunNameError ==
    /\ phase = "idle"
    /\ df_clean = <<>>
    /\ \E m \in Menus : menu' = m
    /\ phase' = "done"
    /\ date_range_defined' = FALSE
    /\ selected_states' = {}
    /\ selected_districts' = {}
    /\ raised' = "NameError"
    /\ rendered' = "exception"
    /\ UNCHANGED <<raw_fact, raw_summary, df_clean, district_summary,
                   selected_date_range, df_final, dist_final, p_sorted, p_top,
                   fig_mat>>

\* if df_final.empty: st.warning(...)
RunNoDataWarning ==
    /\ phase = "idle" /\ df_clean # <<>>
    /\ \E m \in Menus, range \in DateInputValues(df_clean),
       states \in StateSelections(df_clean) :
      \E districts \in DistrictSelections(df_clean, states) :
        /\ SidebarAndFilter(m, range, states, districts)
        /\ df_final' = <<>>
        /\ rendered' = "warning"
        /\ UNCHANGED <<district_summary, p_sorted, p_top, fig_mat>>

\* the three views that draw on df_final only
RunFactView(m) ==
    /\ phase = "idle" /\ df_clean # <<>>
    /\ \E range \in DateInputValues(df_clean), states \in StateSelections(df_clean) :
      \E districts \in DistrictSelections(df_clean, states) :
        /\ SidebarAndFilter(m, range, states, districts)
        /\ df_final' # <<>>
        /\ rendered' = "chart"
        /\ UNCHANGED <<district_summary, p_sorted, p_top, fig_mat>>

RunExecutiveSummary == RunFactView("Executive Summary")

RunNationalHeatmap == RunFactView("National Heatmap")

RunEnrollmentTrends == RunFactView("Enrollment Trends")

RunPriorityDistricts ==
    /\ phase = "idle" /\ df_clean # <<>>
    /\ \E range \in DateInputValues(df_clean), states \in StateSelections(df_clean),
       ties \in TieOrders :
      \E districts \in DistrictSelections(df_clean, states) :
        /\ SidebarAndFilter("Priority Districts", range, states, districts)
        /\ df_final' # <<>>
        /\ IF dist_final' # <<>>
           THEN /\ p_sorted' = sort_values(dist_final', ties)
                /\ p_top' = WithLabel(head(p_sorted', PriorityTopN))
                /\ district_summary' = SummaryAfterView(district_summary, p_top')
                /\ rendered' = "chart"
           ELSE /\ rendered' = "info"
                /\ UNCHANGED <<district_summary, p_sorted, p_top>>
        /\ UNCHANGED fig_mat

RunPerformanceMatrix ==
    /\ phase = "idle" /\ df_clean # <<>>
    /\ \E range \in DateInputValues(df_clean), states \in StateSelections(df_clean) :
      \E districts \in DistrictSelections(df_clean, states) :
        /\ SidebarAndFilter("Performance Matrix", range, states, districts)
        /\ df_final' # <<>>
        /\ IF dist_final' # <<>>
           THEN /\ fig_mat' = dist_final'
                /\ rendered' = "chart"
           ELSE /\ rendered' = "header"
                /\ UNCHANGED fig_mat
        /\ UNCHANGED <<district_summary, p_sorted, p_top>>

\* a widget interaction reruns the script from the top in a fresh namespace;
\* the cached tables are handed out again
Rerun ==
    /\ phase = "done"
    /\ phase' = "idle"
    /\ menu' = "Executive Summary"
    /\ date_range_defined' = FALSE
    /\ selected_date_range' = <<>>
    /\ selected_states' = {}
    /\ selected_districts' = {}
    /\ df_final' = <<>>
    /\ dist_final' = <<>>
    /\ raised' = "none"
    /\ rendered' = "nothing"
    /\ p_sorted' = <<>>
    /\ p_top' = <<>>
    /\ fig_mat' = <<>>
    /\ UNCHANGED <<raw_fact, raw_summary, df_clean, district_summary>>

Next ==
    \/ LoadAndCleanData
    \/ RunNameError
    \/ RunNoDataWarning
    \/ RunExecutiveSummary
    \/ RunNationalHeatmap
    \/ RunPriorityDistricts
    \/ RunEnrollmentTrends
    \/ RunPerformanceMatrix
    \/ Rerun

(***************************************************************************)
(* Input files.                                                            *)
(***************************************************************************)
Unreadable == [readable |-> FALSE, rows |-> <<>>]

File(rows) == [readable |-> TRUE, rows |-> rows]

\* (state, district) as the fact file spells them: a state spelt exactly,
\* a state with surrounding whitespace, and a name outside the whitelist
Places ==
    { <<<<"Goa">>, "North Goa">>,
      <<<<"Goa">>, "Salem">>,
      <<<<" ", "Tamil", " ", "Nadu", " ">>, "Salem">>,
      <<<<"Atlantis">>, "Salem">> }

\* date-time values of the fact file: the midnight of every day, and a
\* value that carries a time of day
FactDates ==
    {[day |-> d, noon |-> FALSE] : d \in Days} \cup {[day |-> 0, noon |-> TRUE]}

FactRowValues ==
    {[state |-> p[1], district |-> p[2], date |-> d] :
        p \in Places, d \in FactDates}

FactFiles ==
    {Unreadable}
        \cup {File(t) : t \in UNION {[1..n -> FactRowValues] : n \in 0..MaxRows}}

SummaryRow(s, d, score, pins, kids) ==
    [state |-> s, district |-> d, priority_score |-> score,
     pincodes |-> pins, children |-> kids]

SummaryFileFixed ==
    File(<<SummaryRow(<<"Goa">>, "North Goa", 40, 3, 5),
           SummaryRow(<<"Tamil", " ", "Nadu">>, "Salem", 90, 2, 4)>>)

\* a fact file of two districts of one state, or none
FactFilesFew ==
    { Unreadable,
      File(<<[state |-> <<"Goa">>, district |-> "North Goa",
              date |-> [day |-> 0, noon |-> FALSE]],
             [state |-> <<"Goa">>, district |-> "Salem",
              date |-> [day |-> 0, noon |-> TRUE]]>>) }

SummaryPlaces ==
    { <<<<"Goa">>, "North Goa">>,
      <<<<"Goa">>, "Salem">>,
      <<<<"Goa">>, "Unknown">>,
      <<<<"Tamil", " ", "Nadu">>, "unknown">> }

Scores == {40, 90}

\* (pincodes, children) of a summary row
Counts == { <<3, 5>>, <<0, 5>>, <<3, 0>> }

SummaryRowValues ==
    {SummaryRow(p[1], p[2], sc, c[1], c[2]) :
        p \in SummaryPlaces, sc \in Scores, c \in Counts}

SummaryFiles ==
    {Unreadable}
        \cup {File(t) :
                t \in UNION {[1..n -> SummaryRowValues] : n \in 0..MaxSummaryRows}}

\* a long summary file: a rows of score 90, then b of score 40, then c of
\* score 90, the districts alternating
BlockRows(a, b, c) ==
    [i \in 1..(a + b + c) |->
        SummaryRow(<<"Goa">>,
                   IF i % 2 = 1 THEN "North Goa" ELSE "Salem",
                   IF i <= a \/ i > a + b THEN 90 ELSE 40,
                   3, 5)]

SummaryFilesLong ==
    {File(BlockRows(a, b, c)) : a \in 0..MaxBlock, b \in 0..MaxBlock, c \in 0..MaxBlock}

InitRun ==
    /\ phase = "start"
    /\ df_clean = <<>>
    /\ district_summary = <<>>
    /\ menu = "Executive Summary"
    /\ date_range_defined = FALSE
    /\ selected_date_range = <<>>
    /\ selected_states = {}
    /\ selected_districts = {}
    /\ df_final = <<>>
    /\ dist_final = <<>>
    /\ raised = "none"
    /\ rendered = "nothing"
    /\ p_sorted = <<>>
    /\ p_top = <<>>
    /\ fig_mat = <<>>

Init ==
    /\ raw_fact \in FactFiles
    /\ raw_summary = SummaryFileFixed
    /\ InitRun

Spec == Init /\ [][Next]_vars

\* few fact files, every short summary file
InitSummary ==
    /\ raw_fact \in FactFilesFew
    /\ raw_summary \in SummaryFiles
    /\ InitRun

SpecSummary == InitSummary /\ [][Next]_vars

\* few fact files, long summary files
InitRank ==
    /\ raw_fact \in FactFilesFew
    /\ raw_summary \in SummaryFilesLong
    /\ InitRun

SpecRank == InitRank /\ [][Next]_vars


(***************************************************************************)
(* Properties.                                                             *)
(***************************************************************************)
RunEnded == phase = "done"

RunCompleted == phase = "done" /\ raised = "none"

Notices == {"warning", "info"}

\* C1: when the fact file cannot be read, or no row survives normalization,
\* the run raises nothing and ends showing the 'no data' warning, whatever
\* the menu selection.
C1_EmptyFactEndsInNoData ==
    (RunEnded /\ df_clean = <<>>) => (raised = "none" /\ rendered = "warning")

\* C2: every row of the normalized fact table, and of the filtered table
\* handed to a view, has a region of the 36-entry whitelist; exactly the
\* rows whose trimmed region is not in the whitelist are dropped.
C2_RegionInWhitelist ==
    phase # "start" =>
        /\ Cardinality(ALL_VALID) = 36
        /\ \A i \in 1..Len(df_clean) : df_clean[i].state \in ALL_VALID
        /\ \A i \in 1..Len(df_final) : df_final[i].state \in ALL_VALID
        /\ Len(df_clean) =
             Cardinality({i \in 1..Len(raw_fact.rows) :
                            strip(raw_fact.rows[i].state) \in ALL_VALID})

\* a view was handed rows although the file held a row outside the
\* whitelist and a row that needed trimming
C2_Witness ==
    /\ RunCompleted
    /\ df_final # <<>>
    /\ \E i \in 1..Len(raw_fact.rows) :
          strip(raw_fact.rows[i].state) \notin ALL_VALID
    /\ \E i \in 1..Len(raw_fact.rows) :
          /\ raw_fact.rows[i].state \notin ALL_VALID
          /\ strip(raw_fact.rows[i].state) \in ALL_VALID

WidestSelection ==
    /\ date_range_defined
    /\ selected_date_range = DefaultDateRange(df_clean)
    /\ selected_states = all_states(df_clean)
    /\ selected_districts = relevant_districts(df_clean, selected_states)

\* C3: with all regions, all districts and the default (full) date range
\* selected, the filtered fact table equals the normalized one row for row.
C3_WidestFilterKeepsAll ==
    (RunCompleted /\ WidestSelection) => df_final = df_clean

\* C4 as stated: an empty region or district selection gives an empty
\* filtered fact table, whatever the other controls hold.
C4_EmptySelectionEmptyResult ==
    (RunCompleted /\ (selected_states = {} \/ selected_districts = {}))
        => df_final = <<>>

\* C4 amended: when the date-range control yields two endpoints, an empty
\* region or district selection gives an empty filtered fact table.
C4_EmptySelectionEmptyResultTwoEndpoints ==
    (/\ RunCompleted
     /\ Len(selected_date_range) = 2
     /\ (selected_states = {} \/ selected_districts = {}))
        => df_final = <<>>

\* regions are selected, no district is, and the date range alone would
\* have kept a row
C4_Witness ==
    /\ RunCompleted
    /\ Len(selected_date_range) = 2
    /\ selected_states # {}
    /\ selected_districts = {}
    /\ df_final = <<>>
    /\ \E i \in 1..Len(df_clean) :
          /\ df_clean[i].state \in selected_states
          /\ df_clean[i].date >= day_to_datetime(selected_date_range[1])
          /\ df_clean[i].date <= day_to_datetime(selected_date_range[2])

InClosedInterval(r) ==
    /\ day_to_datetime(selected_date_range[1]) <= r.date
    /\ r.date <= day_to_datetime(selected_date_range[2])

SummaryViews == {"Priority Districts", "Performance Matrix"}

\* C6: whenever the filtered table a view draws on is empty (the fact table
\* for every view, the summary table for Priority Districts and
\* Performance Matrix) the run shows an explicit notice.
C6_EmptyTableShowsNotice ==
    RunCompleted =>
        /\ df_final = <<>> => rendered \in Notices
        /\ (menu \in SummaryViews /\ dist_final = <<>>) => rendered \in Notices

\* C7: after any number of reruns the cached tables are what the loader
\* returned, and the filtered tables are what load, normalize and filter
\* give when run again from the files with the same selection.
C7_TablesNeverModified ==
    phase # "start" =>
        /\ df_clean = CleanFact(raw_fact)
        /\ district_summary = CleanSummary(raw_summary)
        /\ RunCompleted =>
             /\ df_final = FilterFact(CleanFact(raw_fact), selected_date_range,
                                      selected_states, selected_districts)
             /\ dist_final = FilterSummary(CleanSummary(raw_summary),
                                           selected_date_range, selected_states,
                                           selected_districts)

\* the Priority Districts view has sorted, cut and labelled its rows
C7_Witness ==
    /\ RunCompleted
    /\ menu = "Priority Districts"
    /\ rendered = "chart"
    /\ p_top # <<>>
    /\ Len(dist_final) >= 2
    /\ WidestSelection

Unlabelled(r) ==
    SummaryRow(r.state, r.district, r.priority_score, r.pincodes, r.children)

Count(t, v) == Cardinality({i \in 1..Len(t) : t[i] = v})

Shown == [i \in 1..Len(p_top) |-> Unlabelled(p_top[i])]

PriorityChart == RunCompleted /\ menu = "Priority Districts" /\ rendered = "chart"

\* C8: the Priority Districts view shows rows of the filtered summary
\* table, by score descending, at most 20 of them, none with a score below
\* that of a row it leaves out; of rows scoring 90, 90 and 40 the first two
\* of the sorted table are the two rows scoring 90.
C8_PriorityTop ==
    PriorityChart =>
        /\ Len(p_top) <= 20
        /\ Len(p_top) = IF Len(dist_final) < 20 THEN Len(dist_final) ELSE 20
        /\ \A i \in 1..Len(p_top) : \A j \in i..Len(p_top) :
              p_top[i].priority_score >= p_top[j].priority_score
        /\ \A v \in Range(Shown) : Count(Shown, v) <= Count(dist_final, v)
        /\ \A v \in Range(dist_final) :
              Count(Shown, v) < Count(dist_final, v) =>
                 \A i \in 1..Len(p_top) : p_top[i].priority_score >= v.priority_score
        /\ (/\ Len(dist_final) = 3
            /\ Cardinality({i \in 1..3 : dist_final[i].priority_score = 90}) = 2
            /\ Cardinality({i \in 1..3 : dist_final[i].priority_score = 40}) = 1)
              => /\ Len(head(p_sorted, 2)) = 2
                 /\ \A i \in 1..2 : head(p_sorted, 2)[i].priority_score = 90
                 /\ \A v \in Range(dist_final) :
                       v.priority_score = 90 =>
                          Count(head(p_sorted, 2), v) = Count(dist_final, v)

\* more than 20 rows reach the view, and a row scoring 90 comes after the
\* twentieth row of the filtered table
C8_Witness ==
    /\ PriorityChart
    /\ Len(dist_final) > 20
    /\ Len(p_top) = 20
    /\ dist_final[Len(dist_final)].priority_score = 90
    /\ \E i \in 1..20 : dist_final[i].priority_score = 40

\* C9: no row handed to the scatter chart of Performance Matrix has a
\* pincode count or a child count that is zero or negative.
C9_NoNonPositivePoint ==
    (RunCompleted /\ menu = "Performance Matrix" /\ rendered = "chart") =>
        \A i \in 1..Len(fig_mat) :
            fig_mat[i].pincodes > 0 /\ fig_mat[i].children > 0

\* str.lower() on the district names of the input files
lower(d) ==
    CASE d = "Unknown" -> "unknown"
      [] d = "North Goa" -> "north goa"
      [] d = "Salem" -> "salem"
      [] OTHER -> d

\* C10: once loaded, the summary table holds no row whose district is
\* 'unknown' in any letter case, or empty.
C10_NoPlaceholderDistrict ==
    phase # "start" =>
        \A i \in 1..Len(district_summary) :
            lower(district_summary[i].district) \notin {"unknown", ""}

====
